---- MODULE Spec2Model ----
(***************************************************************************)
(* Model of the crypto price server (src/server.js; src/unnamed/part_000   *)
(* is the same program with a 60 s ttl and no welcome message).            *)
(*                                                                         *)
(* Node runs every handler to its next await on one thread, so an action   *)
(* is one run-to-completion segment: a timer tick up to the provider       *)
(* request (or, on a cache hit, to its end), the continuation after the    *)
(* provider's response, an HTTP handler, a socket event.                   *)
(*                                                                         *)
(* On the push channel numbers are exact: prices are integers, a           *)
(* percentage is the fraction num/den, and toFixed(2) rounds that          *)
(* fraction.  The predictor's prices are decimals, so its sums and         *)
(* averages are IEEE-754 doubles, rounded at every operation as the        *)
(* engine rounds them.  The clock takes a few chosen instants              *)
(* (milliseconds) around the ttl and the seven-day window, so the          *)
(* program's own constants are kept.                                       *)
(***************************************************************************)
EXTENDS Integers, Sequences, FiniteSets, TLC

\* ------------------------------------------------------------------ bounds
NumSubs == 2
MaxInFlight == 2
NumInstants == 4
MaxLedger == 2
MaxPredictInFlight == 2
MaxDirectInFlight == 1

\* ------------------------------------------------------- program constants
TTL == 300000
NotifyThreshold == 5
ShortWindow == 5
LongWindow == 10
WindowDays == 7
Interval == 10000

Week == WindowDays * 24 * 60 * 60 * 1000

\* ------------------------------------------------------------- JS values
\* null is the empty tuple and a value v is <<v>>, so both compare in TLC.
Null == <<>>
Some(v) == <<v>>

Abs(n) == IF n < 0 THEN 0 - n ELSE n

\* A JS number that came out of a division: num/den, den = 0 being
\* Infinity, -Infinity (num # 0) or NaN (num = 0).
Frac(n, d) == [num |-> n, den |-> d]

\* Math.abs(x) >= k
MathAbsGe(x, k) ==
    IF x.den = 0 THEN x.num # 0
    ELSE Abs(x.num) >= k * Abs(x.den)

\* The decimal digits of a natural number.
Digits == <<"0", "1", "2", "3", "4", "5", "6", "7", "8", "9">>
RECURSIVE DecimalText(_)
DecimalText(n) ==
    IF n < 10 THEN Digits[n + 1]
    ELSE DecimalText(n \div 10) \o Digits[(n % 10) + 1]

Pad2(n) == IF n < 10 THEN "0" \o DecimalText(n) ELSE DecimalText(n)

\* The one element of a singleton: Only({e(x) : x \in {v}}) is e(v), with v
\* evaluated once.
Only(S) == CHOOSE v \in S : TRUE

\* Number.prototype.toFixed(2): the sign, then the magnitude rounded to the
\* nearest hundredth, a tie going up.
ToFixed2(y) ==
    Only({ IF x.den = 0
           THEN (IF x.num = 0 THEN "NaN" ELSE IF x.num > 0 THEN "Infinity" ELSE "-Infinity")
           ELSE Only({ (IF ((x.num < 0) # (x.den < 0)) /\ x.num # 0 THEN "-" ELSE "")
                           \o DecimalText(h \div 100) \o "." \o Pad2(h % 100)
                       : h \in {(2 * 100 * Abs(x.num) + Abs(x.den)) \div (2 * Abs(x.den))} })
           : x \in {y} })

\* ------------------------------------------------------ IEEE-754 doubles
\* A natural number of any size: its digits in base 2^15, lowest first, the
\* highest not 0; <<>> is 0.
BigBase == 32768

RECURSIVE BigOf(_)
BigOf(n) == IF n = 0 THEN <<>> ELSE <<n % BigBase>> \o BigOf(n \div BigBase)

RECURSIVE BigTrim(_)
BigTrim(x0) ==
    Only({ IF x = <<>> THEN <<>>
           ELSE IF x[Len(x)] = 0 THEN BigTrim(SubSeq(x, 1, Len(x) - 1)) ELSE x
           : x \in {x0} })

RECURSIVE BigAddCarry(_, _, _)
BigAddCarry(x0, y0, c0) ==
    Only({ IF x = <<>> /\ y = <<>> THEN (IF c = 0 THEN <<>> ELSE <<c>>)
           ELSE Only({ <<t % BigBase>>
                           \o BigAddCarry(IF x = <<>> THEN <<>> ELSE Tail(x),
                                          IF y = <<>> THEN <<>> ELSE Tail(y), t \div BigBase)
                       : t \in {(IF x = <<>> THEN 0 ELSE x[1])
                                   + (IF y = <<>> THEN 0 ELSE y[1]) + c} })
           : x \in {x0}, y \in {y0}, c \in {c0} })
BigAdd(x, y) == BigAddCarry(x, y, 0)

\* x * k for 0 < k <= 2^15
RECURSIVE BigMulCarry(_, _, _)
BigMulCarry(x0, k, c0) ==
    Only({ IF x = <<>> THEN (IF c = 0 THEN <<>> ELSE <<c>>)
           ELSE Only({ <<t % BigBase>> \o BigMulCarry(Tail(x), k, t \div BigBase)
                       : t \in {x[1] * k + c} })
           : x \in {x0}, c \in {c0} })
BigMulSmall(x, k) == BigMulCarry(x, k, 0)

\* x divided by k, 0 < k <= 2^15: quotient (untrimmed) and remainder
RECURSIVE BigDivStep(_, _)
BigDivStep(x0, k) ==
    Only({ IF x = <<>> THEN [q |-> <<>>, r |-> 0]
           ELSE Only({ [q |-> <<(hi.r * BigBase + x[1]) \div k>> \o hi.q,
                        r |-> (hi.r * BigBase + x[1]) % k]
                       : hi \in {BigDivStep(Tail(x), k)} })
           : x \in {x0} })
BigDivRem(x, k) == Only({ [q |-> BigTrim(d.q), r |-> d.r] : d \in {BigDivStep(x, k)} })

\* x * 2^n and x \div 2^n
BigShl(x0, n0) ==
    Only({ IF x = <<>> THEN <<>>
           ELSE [j \in 1..(n \div 15) |-> 0] \o BigMulSmall(x, 2 ^ (n % 15))
           : x \in {x0}, n \in {n0} })
BigShr(x0, n0) ==
    Only({ IF n \div 15 >= Len(x) THEN <<>>
           ELSE BigDivRem(SubSeq(x, (n \div 15) + 1, Len(x)), 2 ^ (n % 15)).q
           : x \in {x0}, n \in {n0} })

RECURSIVE BitLen(_)
BitLen(d) == IF d = 0 THEN 0 ELSE 1 + BitLen(d \div 2)
BigBitLen(x0) ==
    Only({ IF x = <<>> THEN 0 ELSE 15 * (Len(x) - 1) + BitLen(x[Len(x)]) : x \in {x0} })

BigOdd(x) == x # <<>> /\ x[1] % 2 = 1

BigLt(x0, y0) ==
    \E x \in {x0}, y \in {y0} :
        \/ Len(x) < Len(y)
        \/ /\ Len(x) = Len(y)
           /\ \E k \in DOMAIN x : x[k] < y[k] /\ \A j \in (k + 1)..Len(x) : x[j] = y[j]

RECURSIVE BigDecimalText(_)
BigDecimalText(x0) ==
    Only({ IF x = <<>> THEN "0"
           ELSE Only({ (IF d.q = <<>> THEN "" ELSE BigDecimalText(d.q)) \o Digits[d.r + 1]
                       : d \in {BigDivRem(x, 10)} })
           : x \in {x0} })

\* A non-negative double: m * 2^e with 2^52 <= m < 2^53, or m = 0 = <<>>.
Precision == 53
DblZero == [m |-> <<>>, e |-> 0]

\* The double nearest to (S + f) * 2^e, a tie going to the even one, where
\* S > 0 and f is 0, or some fraction in (0, 1) when sticky.
DblRound(S0, e0, sticky) ==
    Only({ IF len <= Precision
           THEN [m |-> BigShl(S, Precision - len), e |-> e - (Precision - len)]
           ELSE Only({ Only({ IF BigBitLen(m1) > Precision
                              THEN [m |-> BigShr(m1, 1), e |-> e + (len - Precision) + 1]
                              ELSE [m |-> m1, e |-> e + (len - Precision)]
                              : m1 \in { IF BigOdd(t)
                                            /\ (sticky \/ BigShl(t, len - Precision - 1) # S
                                                       \/ BigOdd(BigShr(t, 1)))
                                         THEN BigAdd(BigShr(t, 1), <<1>>)
                                         ELSE BigShr(t, 1) } })
                       : t \in {BigShr(S, len - Precision - 1)} })
           : S \in {S0}, e \in {e0}, len \in {BigBitLen(S0)} })

DblOfInt(n) == IF n = 0 THEN DblZero ELSE DblRound(BigOf(n), 0, FALSE)

\* a + b
DblAdd(a0, b0) ==
    Only({ IF a.m = <<>> THEN b
           ELSE IF b.m = <<>> THEN a
           ELSE Only({ DblRound(BigAdd(BigShl(a.m, a.e - e), BigShl(b.m, b.e - e)), e, FALSE)
                       : e \in {IF a.e < b.e THEN a.e ELSE b.e} })
           : a \in {a0}, b \in {b0} })

\* a / n for an integer 0 < n <= 2^15
DblDivInt(a0, n) ==
    Only({ IF a.m = <<>> THEN DblZero
           ELSE Only({ DblRound(d.q, a.e - 60, d.r # 0)
                       : d \in {BigDivRem(BigShl(a.m, 60), n)} })
           : a \in {a0} })

\* a < b
DblLt(a0, b0) ==
    \E a \in {a0}, b \in {b0} :
        IF b.m = <<>> THEN FALSE
        ELSE IF a.m = <<>> THEN TRUE
        ELSE a.e < b.e \/ (a.e = b.e /\ BigLt(a.m, b.m))

\* x.toFixed(2) of a double: the nearest hundredth of its exact value, a tie
\* going up.
DblToFixed2(x0) ==
    Only({ Only({ BigDecimalText(d.q) \o "." \o Pad2(d.r) : d \in {BigDivRem(h, 100)} })
           : h \in { IF x.m = <<>> THEN <<>>
                     ELSE IF x.e >= 0 THEN BigMulSmall(BigShl(x.m, x.e), 100)
                     ELSE BigShr(BigAdd(BigMulSmall(x.m, 200), BigShl(<<1>>, 0 - x.e)),
                                 1 - x.e)
                     : x \in {x0} } })

\* A price in the provider's JSON is a decimal with one fractional digit,
\* k/10 written as the integer k; parsing gives the double nearest to it.
DblOfTenths(k) == DblDivInt(DblOfInt(k), 10)

\* ------------------------------------------------------------- the clock
\* Date.now() at the instants the model visits: a start, then offsets that
\* put two instants at and just above the ttl apart, and at and just inside
\* the week apart.
InstantSeq == <<Week, Week + TTL, Week + TTL + 1, 2 * Week + TTL>>
Instant(i) ==
    IF i <= Len(InstantSeq) THEN InstantSeq[i]
    ELSE 2 * Week + TTL + (i - Len(InstantSeq)) * (TTL + 1)
Instants == {Instant(i) : i \in 1..NumInstants}

\* ---------------------------------------------------------- the provider
TrackedSymbols == {"bitcoin", "ethereum", "dogecoin", "litecoin"}

Quote(b, e, d, l) ==
    [bitcoin |-> b, ethereum |-> e, dogecoin |-> d, litecoin |-> l]

\* What /simple/price may answer: a quote per tracked symbol, {usd: p} being
\* <<p>> and an entry without usd being <<>>.
Snapshots ==
    { Quote(<<60>>, <<30>>, <<4>>, <<6>>),
      Quote(<<57>>, <<28>>, <<4>>, <<6>>),
      Quote(<<58>>, <<28>>, <<4>>, <<6>>),
      Quote(<<>>, <<>>, <<>>, <<>>) }

\* crypto.usd || 0
UsdOrZero(q) == IF q = <<>> THEN 0 ELSE q[1]

\* Object.values(data).reduce((acc, crypto) => acc + (crypto.usd || 0), 0)
PortfolioValue(data) ==
    UsdOrZero(data.bitcoin) + UsdOrZero(data.ethereum)
        + UsdOrZero(data.dogecoin) + UsdOrZero(data.litecoin)

Subs == 1..NumSubs

VARIABLES
    now,                     \* Date.now()
    cachedData,              \* Null or Some(snapshot)
    lastFetched,
    previousPortfolioValue,  \* Null or Some(value)
    predictionHistory,
    readyState,              \* per subscriber: "none", "open", "closed"
    interval,                \* per subscriber: its setInterval timer is active
    pending,                 \* provider requests of fetchMarketData in flight, in issue order
    predictPending,          \* /api/predict requests awaiting the provider
    wsOut,                   \* what the last broadcast step did and pushed
    httpOut,                 \* the last HTTP response
    lastFetchOk,             \* the last provider fetch that succeeded: Null or Some([start, data])
    staleAfterError,         \* a fetch failed leaving an expired snapshot, none succeeded since
    anyTickSucceeded,        \* some tick obtained a snapshot
    anyTickPushed,           \* some tick ran past its pushes
    predictFailed,           \* some /api/predict request has failed
    received,                \* per subscriber: welcomes pushed to it, type of its first frame
    lastProcessed,           \* the snapshot of the last tick that ran past its pushes
    directPending            \* /api/portfolio and /api/market-data requests awaiting the provider

vars == <<now, cachedData, lastFetched, previousPortfolioValue, predictionHistory,
          readyState, interval, pending, predictPending, wsOut, httpOut,
          lastFetchOk, staleAfterError, anyTickSucceeded, anyTickPushed, predictFailed,
          received, lastProcessed, directPending>>

cacheVars == <<cachedData, lastFetched>>
ledgerVars == <<predictionHistory, predictPending, httpOut, predictFailed,
                directPending>>
directVars == <<directPending>>
socketVars == <<readyState, interval>>
ghostVars == <<lastFetchOk, staleAfterError, anyTickSucceeded, anyTickPushed,
               received, lastProcessed>>

\* ------------------------------------------------------------ Quote Cache
\* fetchMarketData's test, !cachedData || now - lastFetched > 300000, on the
\* cache as the call finds it at instant t.
IsCacheMissGe(cd, lf, t) == cd = Null \/ t - lf >= TTL
IsCacheMiss(cd, lf, t) == cd = Null \/ t - lf > TTL

\* ----------------------------------------------------------- Broadcast Loop
\* (newVal - oldVal) / oldVal * 100, or 0 without an old value
calculateChangePercentage(newVal, oldVal) ==
    IF oldVal = Null THEN Frac(0, 1)
    ELSE Frac((newVal - oldVal[1]) * 100, oldVal[1])

WelcomeMsg == [type |-> "message", data |-> Null, text |-> "Welcome to WebSocket server!"]
MarketDataMsg(d) == [type |-> "marketData", data |-> Some(d), text |-> ""]
NotificationMsg(pct, value) ==
    [type |-> "notification", data |-> Null,
     text |-> "Portfolio value changed by " \o ToFixed2(pct) \o "% to $"
                  \o ToFixed2(Frac(value, 1)) \o "."]

\* Math.abs(changePercentage) >= 5
ShouldNotifyAbove(pct) ==
    IF pct.den = 0 THEN pct.num # 0
    ELSE Abs(pct.num) > NotifyThreshold * Abs(pct.den)
ShouldNotify(pct) == MathAbsGe(pct, NotifyThreshold)

\* previousPortfolioValue = portfolioValue, the last statement of the try block.
BaselineOnlyWhenNotified(value, notified) ==
    IF notified THEN Some(value) ELSE previousPortfolioValue
BaselineKeepsFirst(value, notified) ==
    IF previousPortfolioValue = Null THEN Some(value) ELSE previousPortfolioValue
NewBaseline(value, notified) == Some(value)

\* sendUpdates after `await fetchMarketData()` gave `data`: the data message,
\* the valuation, the comparison with the shared baseline, the notification,
\* the new baseline.  sendThrows: ws.send on a socket that is no longer open
\* throws in some builds of ws and drops the message in others; a throw
\* leaves the try block at the first send.
SendUpdates(data, sendThrows) ==
    Only({ LET changePercentage ==
                   calculateChangePercentage(portfolioValue, previousPortfolioValue)
               notified == ShouldNotify(changePercentage)
           IN  IF sendThrows
               THEN [pushed |-> <<>>, prev |-> previousPortfolioValue, threw |-> TRUE]
               ELSE [pushed |-> <<MarketDataMsg(data)>>
                                   \o (IF notified
                                       THEN <<NotificationMsg(changePercentage, portfolioValue)>>
                                       ELSE <<>>),
                     prev |-> NewBaseline(portfolioValue, notified),
                     threw |-> FALSE]
           : portfolioValue \in {PortfolioValue(data)} })

\* The outcomes of ws.send for a socket in this state.
SendMayThrow(s) == IF readyState[s] = "open" THEN {FALSE} ELSE BOOLEAN

\* What reaches subscriber s of the frames given to ws.send: a socket that is
\* no longer open sends nothing, whether send throws or drops the frame.
Delivered(s, msgs) == IF readyState[s] = "open" THEN msgs ELSE <<>>

IdleOut == [op |-> "init", sub |-> 0, start |-> 0, hadData |-> FALSE, age |-> 0,
            fetched |-> FALSE, ok |-> FALSE, data |-> Null, pushed |-> <<>>,
            threw |-> FALSE]

\* body: the JSON sent by /api/portfolio and /api/market-data; answer: what
\* the provider answered the request with.
IdleHttp == [op |-> "init", status |-> 0, message |-> "", record |-> Null,
             accuracy |-> "", total |-> 0, correct |-> 0, body |-> Null, answer |-> Null]

RemoveAt(seq, i) == SubSeq(seq, 1, i - 1) \o SubSeq(seq, i + 1, Len(seq))

\* ws.send of the frames msgs to subscriber s, as the subscriber's history
\* keeps it: how many welcome frames so far (2 standing for more), and the
\* type of the first frame of all.
Deliver(rcv, s, msgs) ==
    [rcv EXCEPT ![s] =
        [welcomes |-> LET n == @.welcomes
                               + Cardinality({k \in DOMAIN msgs : msgs[k].type = "message"})
                      IN  IF n > 2 THEN 2 ELSE n,
         first |-> IF @.first = "" /\ msgs # <<>> THEN msgs[1].type ELSE @.first]]

\* wss.on('connection'): the welcome message, then setInterval.
ConnectNoWelcome(s) ==
    /\ readyState[s] = "none"
    /\ readyState' = [readyState EXCEPT ![s] = "open"]
    /\ interval' = [interval EXCEPT ![s] = TRUE]
    /\ wsOut' = [IdleOut EXCEPT !.op = "connect", !.sub = s]
    /\ UNCHANGED <<now, cacheVars, previousPortfolioValue, pending, ledgerVars, ghostVars>>
Connect(s) ==
    /\ readyState[s] = "none"
    /\ readyState' = [readyState EXCEPT ![s] = "open"]
    /\ interval' = [interval EXCEPT ![s] = TRUE]
    /\ wsOut' = [IdleOut EXCEPT !.op = "connect", !.sub = s, !.pushed = <<WelcomeMsg>>]
    /\ received' = Deliver(received, s, <<WelcomeMsg>>)
    /\ UNCHANGED <<now, cacheVars, previousPortfolioValue, pending, ledgerVars,
                   lastFetchOk, staleAfterError, anyTickSucceeded, anyTickPushed,
                   lastProcessed>>

\* setInterval(sendUpdates, 10000): two ticks of one subscriber are a period
\* apart.  The model lets a timer fire at any instant and keeps the period
\* where it shows, between a tick still awaiting the provider and the next.
TimerDue(s) ==
    \A k \in DOMAIN pending : pending[k].sub = s => now - pending[k].now >= Interval

\* A timer tick: sendUpdates up to its await.  On a hit fetchMarketData
\* returns the stored snapshot and the tick runs to its end; on a miss it
\* issues the provider request and the tick waits.
TickStart(s) ==
    /\ interval[s]
    /\ TimerDue(s)
    /\ UNCHANGED <<now, cacheVars, socketVars, ledgerVars, lastFetchOk, staleAfterError>>
    /\ LET miss == IsCacheMiss(cachedData, lastFetched, now)
           age == IF cachedData = Null THEN 0 ELSE now - lastFetched
           call == [IdleOut EXCEPT !.sub = s, !.start = now,
                                   !.hadData = (cachedData # Null), !.age = age]
       IN  IF miss
           THEN /\ Len(pending) < MaxInFlight
                /\ pending' = Append(pending, [sub |-> s, now |-> now])
                /\ wsOut' = [call EXCEPT !.op = "miss", !.fetched = TRUE]
                /\ UNCHANGED <<previousPortfolioValue, anyTickSucceeded, anyTickPushed,
                               received, lastProcessed>>
           ELSE \E r \in {SendUpdates(cachedData[1], FALSE)} :
                    /\ UNCHANGED pending
                    /\ anyTickSucceeded' = TRUE
                    /\ anyTickPushed' = TRUE
                    /\ lastProcessed' = cachedData
                    /\ previousPortfolioValue' = r.prev
                    /\ received' = Deliver(received, s, r.pushed)
                    /\ wsOut' = [call EXCEPT !.op = "hit", !.ok = TRUE,
                                             !.data = cachedData, !.pushed = r.pushed]

\* The provider answers request i with snapshot d: fetchMarketData stores it
\* with the instant the call started, and sendUpdates goes on.
FetchSucceed(i, d, sendThrows) ==
    /\ i \in DOMAIN pending
    /\ sendThrows \in SendMayThrow(pending[i].sub)
    /\ pending' = RemoveAt(pending, i)
    /\ staleAfterError' = FALSE
    /\ anyTickSucceeded' = TRUE
    /\ UNCHANGED <<now, socketVars, ledgerVars>>
    /\ cachedData' = Some(d)
    /\ lastFetched' = pending[i].now
    /\ lastFetchOk' = Some([start |-> pending[i].now, data |-> d])
    /\ \E req \in {pending[i]}, r \in {SendUpdates(d, sendThrows)} :
           /\ previousPortfolioValue' = r.prev
           /\ wsOut' = [IdleOut EXCEPT !.op = "resolve", !.sub = req.sub,
                                       !.start = req.now, !.fetched = TRUE, !.ok = TRUE,
                                       !.data = Some(d), !.pushed = r.pushed,
                                       !.threw = r.threw]
           /\ anyTickPushed' = (anyTickPushed \/ ~r.threw)
           /\ lastProcessed' = (IF r.threw THEN lastProcessed ELSE Some(d))
           /\ received' = Deliver(received, req.sub, Delivered(req.sub, r.pushed))

\* The provider call of request i fails: fetchMarketData throws, sendUpdates
\* catches and logs.
FetchFailTouch(i) ==
    /\ i \in DOMAIN pending
    /\ pending' = RemoveAt(pending, i)
    /\ lastFetched' = now
    /\ wsOut' = [IdleOut EXCEPT !.op = "reject", !.sub = pending[i].sub,
                                !.start = pending[i].now, !.fetched = TRUE]
    /\ staleAfterError' =
           (staleAfterError \/ (cachedData # Null /\ IsCacheMiss(cachedData, lastFetched, now)))
    /\ UNCHANGED <<now, cachedData, previousPortfolioValue, socketVars, ledgerVars,
                   lastFetchOk, anyTickSucceeded, anyTickPushed, received, lastProcessed>>
FetchFailStopsTimer(i) ==
    /\ i \in DOMAIN pending
    /\ pending' = RemoveAt(pending, i)
    /\ interval' = [interval EXCEPT ![pending[i].sub] = FALSE]
    /\ wsOut' = [IdleOut EXCEPT !.op = "reject", !.sub = pending[i].sub,
                                !.start = pending[i].now, !.fetched = TRUE]
    /\ staleAfterError' =
           (staleAfterError \/ (cachedData # Null /\ IsCacheMiss(cachedData, lastFetched, now)))
    /\ UNCHANGED <<now, cacheVars, previousPortfolioValue, readyState, ledgerVars,
                   lastFetchOk, anyTickSucceeded, anyTickPushed, received, lastProcessed>>
FetchFail(i) ==
    /\ i \in DOMAIN pending
    /\ pending' = RemoveAt(pending, i)
    /\ wsOut' = [IdleOut EXCEPT !.op = "reject", !.sub = pending[i].sub,
                                !.start = pending[i].now, !.fetched = TRUE]
    /\ staleAfterError' =
           (staleAfterError \/ (cachedData # Null /\ IsCacheMiss(cachedData, lastFetched, now)))
    /\ UNCHANGED <<now, cacheVars, previousPortfolioValue, socketVars, ledgerVars,
                   lastFetchOk, anyTickSucceeded, anyTickPushed, received, lastProcessed>>

\* ws.on('close'): clearInterval(interval).
CloseAll(s) ==
    /\ readyState[s] = "open"
    /\ readyState' = [readyState EXCEPT ![s] = "closed"]
    /\ interval' = [o \in Subs |-> FALSE]
    /\ wsOut' = [IdleOut EXCEPT !.op = "close", !.sub = s]
    /\ UNCHANGED <<now, cacheVars, previousPortfolioValue, pending, ledgerVars, ghostVars>>
Close(s) ==
    /\ readyState[s] = "open"
    /\ readyState' = [readyState EXCEPT ![s] = "closed"]
    /\ interval' = [interval EXCEPT ![s] = FALSE]
    /\ wsOut' = [IdleOut EXCEPT !.op = "close", !.sub = s]
    /\ UNCHANGED <<now, cacheVars, previousPortfolioValue, pending, ledgerVars, ghostVars>>

\* Time passes between handlers; what the last handler answered is then past.
AdvanceClock ==
    /\ \E t \in Instants : t > now /\ now' = t
    /\ wsOut' = [IdleOut EXCEPT !.op = "clock"]
    /\ httpOut' = [IdleHttp EXCEPT !.op = "clock"]
    /\ UNCHANGED <<cacheVars, previousPortfolioValue, socketVars, pending,
                   predictionHistory, predictPending, predictFailed, ghostVars, directVars>>

\* ----------------------------------------------------- Moving-Average Predictor
\* recentData.reduce((acc, value) => acc + value, 0): the additions are made
\* left to right in doubles, each one rounded.
RECURSIVE SumSeq(_, _)
SumSeq(acc, q) == IF q = <<>> THEN acc ELSE SumSeq(DblAdd(acc, q[1]), Tail(q))

\* data.slice(-days)
LastN(data, days) == SubSeq(data, Len(data) - days + 1, Len(data))

calculateMovingAverageOfFirst(data, days) ==
    IF Len(data) < days THEN DblZero
    ELSE DblDivInt(SumSeq(DblZero, SubSeq(data, 1, days)), days)
calculateMovingAverage(data, days) ==
    IF Len(data) < days THEN DblZero
    ELSE DblDivInt(SumSeq(DblZero, LastN(data, days)), days)

Signal(shortTermMA, longTermMA) ==
    IF DblLt(longTermMA, shortTermMA) THEN "Buy"
    ELSE IF DblLt(shortTermMA, longTermMA) THEN "Sell"
    ELSE "Hold"

Rationale(shortTermMA, longTermMA) ==
    "Short-term MA (5-day): " \o DblToFixed2(shortTermMA) \o ", Long-term MA (10-day): "
        \o DblToFixed2(longTermMA) \o ". Prediction is based on moving averages."

\* What /coins/<symbol>/market_chart may answer: prices as [day, price] pairs,
\* a price being written in tenths (7 is the JSON number 0.7).
Series(first, prices) == [k \in 1..Len(prices) |-> <<first + k - 1, prices[k]>>]
Histories ==
    { Series(1, <<10, 20, 30, 40, 50, 60, 70, 80, 90, 100>>),
      Series(1, <<100, 90, 80, 70, 60, 50, 40, 30, 20, 10>>),
      Series(8, <<40, 50, 60>>) }

\* More answers: a flat price of 0.1, 0.3, 0.5, 0.7 and 1.0 over as many days
\* as the long window and one more, series shorter than a window, and a
\* rise and fall.
Flat(v, n) == [k \in 1..n |-> v]
FlatPrices == {1, 3, 5, 7, 10}
PriceInputs ==
    { Flat(v, n) : v \in FlatPrices, n \in {LongWindow, LongWindow + 1} }
        \cup { <<>>, Flat(7, ShortWindow - 1), Flat(7, LongWindow - 1),
               <<1, 2, 3, 4, 5, 6, 7, 8, 9>>,
               <<10, 20, 30, 40, 50, 60, 70, 80, 90, 100>>,
               <<100, 90, 80, 70, 60, 50, 40, 30, 20, 10>>,
               <<1, 2, 3, 1, 2, 3, 1, 2, 3, 1, 2>>,
               <<3, 1, 2, 2, 1, 3, 3, 1, 2, 2, 1, 3>> }
PriceHistories == { Series(1, p) : p \in PriceInputs }

\* new Date(item[0]).toLocaleDateString(): the label of the item's day.
DateLabel(day) == "day " \o DecimalText(day)

\* req.query.symbol || 'bitcoin': the parameter is absent or names a coin.
SymbolInputs == {Null, Some("bitcoin")}
SymbolOrDefault(q) == IF q = Null THEN "bitcoin" ELSE q[1]
ToUpperCase(sym) ==
    CASE sym = "bitcoin" -> "BITCOIN"
      [] sym = "ethereum" -> "ETHEREUM"
      [] OTHER -> sym

\* ----------------------------------------------------------- JSON body values
JNull == [t |-> "null", n |-> 0, s |-> "", b |-> FALSE]
JNum(k) == [t |-> "num", n |-> k, s |-> "", b |-> FALSE]
JStr(x) == [t |-> "str", n |-> 0, s |-> x, b |-> FALSE]
JBool(x) == [t |-> "bool", n |-> 0, s |-> "", b |-> x]

\* Number(v): Null is NaN.
NumberOf(v) ==
    CASE v.t = "num" -> Some(v.n)
      [] v.t = "null" -> Some(0)
      [] v.t = "bool" -> Some(IF v.b THEN 1 ELSE 0)
      [] v.t = "str" ->
            (CASE v.s = "" -> Some(0)
               [] v.s = "1" -> Some(1)
               [] v.s = "2" -> Some(2)
               [] OTHER -> Null)

\* v in a boolean context
Truthy(v) ==
    CASE v.t = "num" -> v.n # 0
      [] v.t = "null" -> FALSE
      [] v.t = "bool" -> v.b
      [] v.t = "str" -> v.s # ""

\* prediction === v, prediction being a string
StrictEqStr(str, v) == v.t = "str" /\ v.s = str

IdInputs == {JNum(1), JNum(2), JNum(999), JStr("2"), JStr("x")}
ActualInputs == {JStr("Buy"), JStr(""), JNull}

\* ------------------------------------------------------------ Prediction Ledger
\* id: predictionHistory.length + 1
NextPredictionIdCountingFailures == Len(predictionHistory) + 1 + (IF predictFailed THEN 1 ELSE 0)
NextPredictionId == Len(predictionHistory) + 1

\* GET /api/predict up to its await: the provider request for the symbol.
PredictStart(q) ==
    /\ Len(predictPending) < MaxPredictInFlight
    /\ predictPending' = Append(predictPending, SymbolOrDefault(q))
    /\ httpOut' = [IdleHttp EXCEPT !.op = "predict"]
    /\ UNCHANGED <<now, cacheVars, previousPortfolioValue, predictionHistory, socketVars,
                   pending, wsOut, ghostVars, directVars, predictFailed>>

\* What the handler computes from the provider's answer alone.
Analysis(priceData) ==
    Only({ Only({ [prediction |-> Signal(ma[1], ma[2]),
                   rationale |-> Rationale(ma[1], ma[2]),
                   shortTermMA |-> ma[1],
                   longTermMA |-> ma[2],
                   prices |-> prices,
                   timestamps |-> [k \in 1..Len(priceData) |-> DateLabel(priceData[k][1])]]
                  : ma \in {<<calculateMovingAverage(prices, ShortWindow),
                              calculateMovingAverage(prices, LongWindow)>>} })
           : prices \in {[k \in 1..Len(priceData) |-> DblOfTenths(priceData[k][2])]} })

NewPrediction(symbol, priceData) ==
    Only({ [id |-> NextPredictionId,
            symbol |-> ToUpperCase(symbol),
            prediction |-> a.prediction,
            rationale |-> a.rationale,
            shortTermMA |-> a.shortTermMA,
            longTermMA |-> a.longTermMA,
            prices |-> a.prices,
            timestamps |-> a.timestamps,
            actual |-> JNull,
            timestamp |-> now]
           : a \in {Analysis(priceData)} })

\* The provider answers predict request i with the series h: the record is
\* built, appended and returned.
PredictSucceed(i, h) ==
    /\ i \in DOMAIN predictPending
    /\ Len(predictionHistory) < MaxLedger
    /\ predictPending' = RemoveAt(predictPending, i)
    /\ UNCHANGED <<now, cacheVars, previousPortfolioValue, socketVars, pending, wsOut,
                   ghostVars, directVars, predictFailed>>
    /\ \E rec \in {NewPrediction(predictPending[i], h)} :
           /\ predictionHistory' = Append(predictionHistory, rec)
           /\ httpOut' = [IdleHttp EXCEPT !.op = "predicted", !.status = 200,
                                          !.record = Some(rec)]

\* The provider call of predict request i fails: 500, nothing appended.
PredictFail(i) ==
    /\ i \in DOMAIN predictPending
    /\ predictPending' = RemoveAt(predictPending, i)
    /\ httpOut' = [IdleHttp EXCEPT !.op = "predictFailed", !.status = 500,
                                   !.message = "Error generating prediction"]
    /\ predictFailed' = TRUE
    /\ UNCHANGED <<now, cacheVars, previousPortfolioValue, predictionHistory, socketVars,
                   pending, wsOut, ghostVars, directVars>>

\* predictionHistory.find((p) => p.id === Number(id)): the index of the first
\* match, 0 when there is none.
FindPrediction(id) ==
    LET n == NumberOf(id)
        hits == {k \in DOMAIN predictionHistory :
                    n # Null /\ predictionHistory[k].id = n[1]}
    IN  IF hits = {} THEN 0 ELSE CHOOSE k \in hits : \A j \in hits : k <= j

\* POST /api/actual
PostActualFirstWriteWins(id, actual) ==
    /\ LET k == FindPrediction(id)
       IN  IF k # 0
           THEN /\ predictionHistory' =
                       [predictionHistory EXCEPT ![k].actual =
                            IF @ = JNull THEN actual ELSE @]
                /\ httpOut' = [IdleHttp EXCEPT !.op = "actual", !.status = 200,
                                   !.message = "Prediction updated successfully!",
                                   !.record = Some(predictionHistory'[k])]
           ELSE /\ httpOut' = [IdleHttp EXCEPT !.op = "actual", !.status = 404,
                                   !.message = "Prediction not found."]
                /\ UNCHANGED predictionHistory
    /\ UNCHANGED <<now, cacheVars, previousPortfolioValue, predictPending, socketVars,
                   pending, wsOut, ghostVars, directVars, predictFailed>>
PostActual(id, actual) ==
    /\ LET k == FindPrediction(id)
       IN  IF k # 0
           THEN /\ predictionHistory' = [predictionHistory EXCEPT ![k].actual = actual]
                /\ httpOut' = [IdleHttp EXCEPT !.op = "actual", !.status = 200,
                                   !.message = "Prediction updated successfully!",
                                   !.record = Some(predictionHistory'[k])]
           ELSE /\ httpOut' = [IdleHttp EXCEPT !.op = "actual", !.status = 404,
                                   !.message = "Prediction not found."]
                /\ UNCHANGED predictionHistory
    /\ UNCHANGED <<now, cacheVars, previousPortfolioValue, predictPending, socketVars,
                   pending, wsOut, ghostVars, directVars, predictFailed>>

\* oneWeekAgo.setDate(oneWeekAgo.getDate() - 7), as milliseconds
OneWeekAgo == now - Week

\* predictionHistory.filter((p) => new Date(p.timestamp) > oneWeekAgo && p.actual)
RecentPredictionsNonNull ==
    SelectSeq(predictionHistory, LAMBDA p : p.timestamp > OneWeekAgo /\ p.actual # JNull)
RecentPredictions ==
    SelectSeq(predictionHistory, LAMBDA p : p.timestamp > OneWeekAgo /\ Truthy(p.actual))

CorrectPredictions ==
    Len(SelectSeq(RecentPredictions, LAMBDA p : StrictEqStr(p.prediction, p.actual)))

\* `${accuracy}%` with accuracy = total ? ((correct / total) * 100).toFixed(2) : 0
AccuracyText(correct, total) ==
    (IF total # 0 THEN ToFixed2(Frac(correct * 100, total)) ELSE "0") \o "%"

\* GET /api/accuracy
GetAccuracyPruning ==
    /\ httpOut' = [IdleHttp EXCEPT !.op = "accuracy", !.status = 200,
                       !.accuracy = AccuracyText(CorrectPredictions, Len(RecentPredictions)),
                       !.total = Len(RecentPredictions),
                       !.correct = CorrectPredictions]
    /\ predictionHistory' = SelectSeq(predictionHistory, LAMBDA p : p.timestamp > OneWeekAgo)
    /\ UNCHANGED <<now, cacheVars, previousPortfolioValue, predictPending,
                   socketVars, pending, wsOut, ghostVars, directVars, predictFailed>>
GetAccuracy ==
    /\ httpOut' = [IdleHttp EXCEPT !.op = "accuracy", !.status = 200,
                       !.accuracy = AccuracyText(CorrectPredictions, Len(RecentPredictions)),
                       !.total = Len(RecentPredictions),
                       !.correct = CorrectPredictions]
    /\ UNCHANGED <<now, cacheVars, previousPortfolioValue, predictionHistory, predictPending,
                   socketVars, pending, wsOut, ghostVars, directVars, predictFailed>>

\* ------------------------------------------- requests that bypass the cache
\* req.query.symbols ? req.query.symbols.split(',') : ['bitcoin']
SymbolsInputs == {Null, Some(<<"bitcoin", "ethereum">>), Some(<<"dogecoin", "unknowncoin">>)}
SymbolsOrDefault(q) == IF q = Null THEN <<"bitcoin">> ELSE q[1]

\* What /simple/price?ids=<symbols> answers when the quotes are those of d:
\* an entry for each symbol asked for that the provider knows.
PriceOf(symbols, d) ==
    [sym \in {symbols[k] : k \in DOMAIN symbols} \cap TrackedSymbols |-> d[sym]]

\* symbols.reduce((acc, symbol) => acc + (data[symbol]?.usd || 0), 0)
RECURSIVE SumUsd(_, _)
SumUsd(symbols, data) ==
    IF symbols = <<>> THEN 0
    ELSE (IF symbols[1] \in DOMAIN data THEN UsdOrZero(data[symbols[1]]) ELSE 0)
             + SumUsd(Tail(symbols), data)

PortfolioBody(symbols, data) == [data |-> data, portfolioValue |-> SumUsd(symbols, data)]

\* GET /api/portfolio up to its await: the provider request for the symbols.
GetPortfolioStart(q) ==
    /\ Len(directPending) < MaxDirectInFlight
    /\ directPending' = Append(directPending, [route |-> "portfolio", symbols |-> SymbolsOrDefault(q)])
    /\ httpOut' = [IdleHttp EXCEPT !.op = "portfolio"]
    /\ UNCHANGED <<now, cacheVars, previousPortfolioValue, predictionHistory, predictPending,
                   socketVars, pending, wsOut, ghostVars, predictFailed>>

\* The provider answers portfolio request i with the quotes of d.
GetPortfolioThroughCache(i, d) ==
    /\ i \in DOMAIN directPending
    /\ directPending[i].route = "portfolio"
    /\ directPending' = RemoveAt(directPending, i)
    /\ cachedData' = Some(d)
    /\ lastFetched' = now
    /\ \E data \in {PriceOf(directPending[i].symbols, d)} :
           httpOut' = [IdleHttp EXCEPT !.op = "portfolioDone", !.status = 200,
                           !.body = Some(PortfolioBody(directPending[i].symbols, data)),
                           !.answer = Some(data)]
    /\ UNCHANGED <<now, previousPortfolioValue, predictionHistory, predictPending,
                   socketVars, pending, wsOut, ghostVars, predictFailed>>
GetPortfolioSucceed(i, d) ==
    /\ i \in DOMAIN directPending
    /\ directPending[i].route = "portfolio"
    /\ directPending' = RemoveAt(directPending, i)
    /\ \E data \in {PriceOf(directPending[i].symbols, d)} :
           httpOut' = [IdleHttp EXCEPT !.op = "portfolioDone", !.status = 200,
                           !.body = Some(PortfolioBody(directPending[i].symbols, data)),
                           !.answer = Some(data)]
    /\ UNCHANGED <<now, cacheVars, previousPortfolioValue, predictionHistory, predictPending,
                   socketVars, pending, wsOut, ghostVars, predictFailed>>

\* The provider call of portfolio request i fails: 500.
GetPortfolioFail(i) ==
    /\ i \in DOMAIN directPending
    /\ directPending[i].route = "portfolio"
    /\ directPending' = RemoveAt(directPending, i)
    /\ httpOut' = [IdleHttp EXCEPT !.op = "portfolioFailed", !.status = 500,
                                   !.message = "Error fetching portfolio data"]
    /\ UNCHANGED <<now, cacheVars, previousPortfolioValue, predictionHistory, predictPending,
                   socketVars, pending, wsOut, ghostVars, predictFailed>>

\* GET /api/market-data up to its await: the provider request for one symbol.
GetMarketDataStart(q) ==
    /\ Len(directPending) < MaxDirectInFlight
    /\ directPending' = Append(directPending,
                               [route |-> "market-data", symbols |-> <<SymbolOrDefault(q)>>])
    /\ httpOut' = [IdleHttp EXCEPT !.op = "marketData"]
    /\ UNCHANGED <<now, cacheVars, previousPortfolioValue, predictionHistory, predictPending,
                   socketVars, pending, wsOut, ghostVars, predictFailed>>

\* The provider answers market-data request i with the quotes of d: they are
\* sent as they came.
GetMarketDataSucceed(i, d) ==
    /\ i \in DOMAIN directPending
    /\ directPending[i].route = "market-data"
    /\ directPending' = RemoveAt(directPending, i)
    /\ \E data \in {PriceOf(directPending[i].symbols, d)} :
           httpOut' = [IdleHttp EXCEPT !.op = "marketDataDone", !.status = 200,
                           !.body = Some(data), !.answer = Some(data)]
    /\ UNCHANGED <<now, cacheVars, previousPortfolioValue, predictionHistory, predictPending,
                   socketVars, pending, wsOut, ghostVars, predictFailed>>

\* The provider call of market-data request i fails: 500.
GetMarketDataFail(i) ==
    /\ i \in DOMAIN directPending
    /\ directPending[i].route = "market-data"
    /\ directPending' = RemoveAt(directPending, i)
    /\ httpOut' = [IdleHttp EXCEPT !.op = "marketDataFailed", !.status = 500,
                                   !.message = "Error fetching market data"]
    /\ UNCHANGED <<now, cacheVars, previousPortfolioValue, predictionHistory, predictPending,
                   socketVars, pending, wsOut, ghostVars, predictFailed>>

Init ==
    /\ now = Instant(1)
    /\ cachedData = Null
    /\ lastFetched = 0
    /\ previousPortfolioValue = Null
    /\ predictionHistory = <<>>
    /\ readyState = [s \in Subs |-> "none"]
    /\ interval = [s \in Subs |-> FALSE]
    /\ pending = <<>>
    /\ predictPending = <<>>
    /\ wsOut = IdleOut
    /\ httpOut = IdleHttp
    /\ lastFetchOk = Null
    /\ staleAfterError = FALSE
    /\ anyTickSucceeded = FALSE
    /\ anyTickPushed = FALSE
    /\ predictFailed = FALSE
    /\ received = [s \in Subs |-> [welcomes |-> 0, first |-> ""]]
    /\ lastProcessed = Null
    /\ directPending = <<>>

NextBroadcast ==
    \/ \E s \in Subs : Connect(s)
    \/ \E s \in Subs : TickStart(s)
    \/ \E i \in 1..MaxInFlight, d \in Snapshots, b \in BOOLEAN : FetchSucceed(i, d, b)
    \/ \E i \in 1..MaxInFlight : FetchFail(i)
    \/ \E s \in Subs : Close(s)
    \/ AdvanceClock

NextLedger ==
    \/ \E q \in SymbolInputs : PredictStart(q)
    \/ \E i \in 1..MaxPredictInFlight, h \in Histories : PredictSucceed(i, h)
    \/ \E i \in 1..MaxPredictInFlight : PredictFail(i)
    \/ \E id \in IdInputs, actual \in ActualInputs : PostActual(id, actual)
    \/ GetAccuracy
    \/ AdvanceClock

NextPredictor ==
    \/ \E q \in SymbolInputs : PredictStart(q)
    \/ \E i \in 1..MaxPredictInFlight, h \in PriceHistories : PredictSucceed(i, h)
    \/ \E i \in 1..MaxPredictInFlight : PredictFail(i)

NextDirect ==
    \/ \E q \in SymbolsInputs : GetPortfolioStart(q)
    \/ \E i \in 1..MaxDirectInFlight, d \in Snapshots : GetPortfolioSucceed(i, d)
    \/ \E i \in 1..MaxDirectInFlight : GetPortfolioFail(i)
    \/ \E q \in SymbolInputs : GetMarketDataStart(q)
    \/ \E i \in 1..MaxDirectInFlight, d \in Snapshots : GetMarketDataSucceed(i, d)
    \/ \E i \in 1..MaxDirectInFlight : GetMarketDataFail(i)

\* One subscriber, one predict, one outcome and the requests that bypass the
\* cache, at one instant.
FirstSub == 1
FirstHistory == Series(1, <<10, 20, 30, 40, 50, 60, 70, 80, 90, 100>>)
NextHttpAndPush ==
    \/ Connect(FirstSub)
    \/ TickStart(FirstSub)
    \/ \E i \in 1..MaxInFlight, d \in Snapshots, b \in BOOLEAN : FetchSucceed(i, d, b)
    \/ \E i \in 1..MaxInFlight : FetchFail(i)
    \/ Close(FirstSub)
    \/ PredictStart(Null)
    \/ \E i \in 1..MaxPredictInFlight : PredictSucceed(i, FirstHistory)
    \/ \E i \in 1..MaxPredictInFlight : PredictFail(i)
    \/ PostActual(JNum(1), JStr("Buy"))
    \/ GetAccuracy
    \/ NextDirect

Next == NextBroadcast \/ NextLedger \/ NextPredictor \/ NextDirect

\* The whole server.
Spec == Init /\ [][Next]_vars
\* The push channel and the Quote Cache alone: no HTTP request arrives.
SpecBroadcast == Init /\ [][NextBroadcast]_vars
\* The prediction endpoints alone: no subscriber connects.
SpecLedger == Init /\ [][NextLedger]_vars
\* GET /api/predict alone, the provider answering with any of PriceHistories.
SpecPredictor == Init /\ [][NextPredictor]_vars
\* The HTTP endpoints and the push channel together, in a small environment.
SpecHttpAndPush == Init /\ [][NextHttpAndPush]_vars

\* The push channel with the scheduling Node gives it: a running timer fires
\* again and again, a provider request ends, and a subscriber whose requests
\* keep going out is answered once the provider succeeds again.
FetchSucceedFor(s) ==
    \E i \in 1..MaxInFlight, d \in Snapshots, b \in BOOLEAN :
        /\ i \in DOMAIN pending
        /\ pending[i].sub = s
        /\ FetchSucceed(i, d, b)
FetchEnds(i) ==
    \/ FetchFail(i)
    \/ \E d \in Snapshots, b \in BOOLEAN : FetchSucceed(i, d, b)
LiveBroadcast ==
    /\ Init /\ [][NextBroadcast]_vars
    /\ \A s \in Subs : SF_vars(TickStart(s))
    /\ \A i \in 1..MaxInFlight : WF_vars(FetchEnds(i))
    /\ \A s \in Subs : SF_vars(FetchSucceedFor(s))

\* ------------------------------------------------------------------ steps
\* A cache call began in this step (a tick reached fetchMarketData).
CallStarted == wsOut'.op \in {"hit", "miss"} /\ (wsOut' # wsOut \/ pending' # pending)
\* A cache call returned a snapshot in this step: a hit, or a provider answer.
CallReturned == wsOut'.op \in {"hit", "resolve"} /\ (wsOut' # wsOut \/ pending' # pending)
\* A cache call failed in this step.
CallFailed == wsOut'.op = "reject" /\ pending' # pending

HasType(msgs, type) == \E k \in DOMAIN msgs : msgs[k].type = type

\* ------------------------------------------------------------------ C1
\* C1: of two cache calls that return a snapshot, the later one starting
\* less than the ttl after the start of the earlier one's successful provider
\* fetch, the later one makes no provider call and returns the same snapshot.
C1_SecondCallWithinTtlReuses ==
    [][ (/\ CallReturned
         /\ lastFetchOk # Null
         /\ lastFetchOk[1].start <= wsOut'.start
         /\ wsOut'.start - lastFetchOk[1].start < TTL)
        => (~wsOut'.fetched /\ wsOut'.data = Some(lastFetchOk[1].data)) ]_vars

\* ------------------------------------------------------------------ C2
\* C2 (as amended): a cache call issues a provider fetch exactly when no
\* snapshot is stored or the snapshot's age, now minus fetched-at, is greater
\* than the ttl; at an age equal to the ttl the stored snapshot is reused.
C2_FetchIffEmptyOrOlderThanTtl ==
    wsOut.op \in {"hit", "miss"} =>
        /\ wsOut.fetched <=> (~wsOut.hadData \/ wsOut.age > TTL)
        /\ wsOut.op = "hit" => (wsOut.data = cachedData /\ ~wsOut.fetched)

\* C2 as claimed: the fetch is issued exactly when no snapshot is stored or
\* the age is at least the ttl.
C2_FetchIffEmptyOrAgeAtLeastTtl ==
    wsOut.op \in {"hit", "miss"} =>
        (wsOut.fetched <=> (~wsOut.hadData \/ wsOut.age >= TTL))

\* A call found a snapshot exactly ttl old and reused it.
C2_Witness == wsOut.op = "hit" /\ wsOut.hadData /\ wsOut.age = TTL /\ ~wsOut.fetched

\* ------------------------------------------------------------------ C3
\* C3: a failed provider call ends its cache call with an error and no
\* snapshot, and leaves the stored snapshot and fetched-at as they were; and
\* while a failure has left an expired snapshot behind, no call returns the
\* stored snapshot: the next snapshot returned comes from a successful fetch.
C3_FailureKeepsCacheAndServesNoStale ==
    /\ [][ CallFailed =>
            /\ cachedData' = cachedData
            /\ lastFetched' = lastFetched
            /\ ~wsOut'.ok /\ wsOut'.data = Null /\ wsOut'.pushed = <<>> ]_vars
    /\ [](wsOut.op = "hit" => ~staleAfterError)
    /\ [](staleAfterError => cachedData # Null /\ IsCacheMiss(cachedData, lastFetched, now))

\* After a failure that left an expired snapshot, the next call refetches.
C3_Witness == staleAfterError /\ wsOut.op = "miss" /\ wsOut.hadData

\* ------------------------------------------------------------------ C4
\* C4: the ledger's ids are 1, 2, ..., n in insertion order, whatever the
\* interleaving of /api/predict requests; the record a request returns is
\* the one it appended last, and a failed request appends nothing and takes
\* no id.
C4_IdsAreOneToN ==
    /\ \A k \in DOMAIN predictionHistory : predictionHistory[k].id = k
    /\ httpOut.op = "predicted" =>
           /\ httpOut.record = Some(predictionHistory[Len(predictionHistory)])
           /\ httpOut.record[1].id = Len(predictionHistory)
    /\ httpOut.op = "predictFailed" => httpOut.record = Null

\* Two records were appended by overlapping requests after another request
\* had failed.
C4_Witness ==
    /\ predictFailed
    /\ Len(predictionHistory) = 2
    /\ httpOut.op = "predicted"
    /\ predictionHistory[1].timestamp = predictionHistory[2].timestamp

\* ------------------------------------------------------------------ C5
\* The body's id names record p: p.id === Number(id).
IdMatches(id, p) == NumberOf(id) = Some(p.id)

\* C5: POST /api/actual with an id matching no record answers 404
\* 'Prediction not found.' and leaves the ledger as it was; with an id
\* matching a record it sets that record's actual to the value given,
\* whatever it held, changes nothing else, and returns the updated record.
C5_RecordOutcome ==
    [][ \A id \in IdInputs, actual \in ActualInputs :
          (httpOut'.op = "actual" /\ PostActual(id, actual)) =>
             IF \E k \in DOMAIN predictionHistory : IdMatches(id, predictionHistory[k])
             THEN \E k \in DOMAIN predictionHistory :
                     /\ IdMatches(id, predictionHistory[k])
                     /\ predictionHistory' = [predictionHistory EXCEPT ![k].actual = actual]
                     /\ httpOut'.status = 200
                     /\ httpOut'.record = Some(predictionHistory'[k])
                     /\ httpOut'.record[1].actual = actual
             ELSE /\ predictionHistory' = predictionHistory
                  /\ httpOut'.status = 404
                  /\ httpOut'.message = "Prediction not found."
                  /\ httpOut'.record = Null ]_vars

\* The second of two records was given the outcome "", answered with the
\* updated record, the first one keeping the outcome it had been given.
C5_Witness ==
    /\ httpOut.op = "actual"
    /\ httpOut.status = 200
    /\ httpOut.record[1].actual = JStr("")
    /\ httpOut.record[1].id = 2
    /\ predictionHistory[2].actual = JStr("")
    /\ predictionHistory[1].actual = JStr("Buy")

\* ------------------------------------------------------------------ C6
InWindow(p) == p.timestamp > now - Week
Counted(p) == InWindow(p) /\ Truthy(p.actual)
HundredthsText(h) == DecimalText(h \div 100) \o "." \o Pad2(h % 100) \o "%"

\* C6 (as amended): /api/accuracy reports total = the number of records
\* predicted inside the window whose actual is truthy (neither null nor the
\* empty string), correct = the number of those whose signal equals actual,
\* and accuracy = 100 * correct / total rounded to two decimals and followed
\* by "%", or "0%" with total and correct 0 when no record counts.
C6_AccuracyCountsTruthyActuals ==
    httpOut.op = "accuracy" =>
        LET counted == {k \in DOMAIN predictionHistory : Counted(predictionHistory[k])}
            right == {k \in counted :
                         StrictEqStr(predictionHistory[k].prediction,
                                     predictionHistory[k].actual)}
            total == Cardinality(counted)
            correct == Cardinality(right)
        IN  /\ httpOut.total = total
            /\ httpOut.correct = correct
            /\ IF total = 0 THEN httpOut.accuracy = "0%"
               ELSE \E h \in 0..10000 :
                        /\ 2 * Abs(h * total - 10000 * correct) <= total
                        /\ httpOut.accuracy = HundredthsText(h)

\* C6 as claimed: total counts the records inside the window whose actual is
\* non-null, correct those among them whose signal equals actual, accuracy is
\* 100 * correct / total, and all three are 0 when no such record exists.
C6_AccuracyCountsNonNullActuals ==
    httpOut.op = "accuracy" =>
        LET counted == {k \in DOMAIN predictionHistory :
                           /\ InWindow(predictionHistory[k])
                           /\ predictionHistory[k].actual # JNull}
            right == {k \in counted :
                         StrictEqStr(predictionHistory[k].prediction,
                                     predictionHistory[k].actual)}
            total == Cardinality(counted)
            correct == Cardinality(right)
        IN  /\ httpOut.total = total
            /\ httpOut.correct = correct
            /\ IF total = 0 THEN httpOut.accuracy = "0%"
               ELSE \E h \in 0..10000 :
                        /\ h * total = 10000 * correct
                        /\ httpOut.accuracy = HundredthsText(h)

\* Accuracy was asked with a right outcome inside the window, a record whose
\* outcome is the empty string, and so one record counted of two.
C6_Witness ==
    /\ httpOut.op = "accuracy"
    /\ Len(predictionHistory) = 2
    /\ httpOut.total = 1
    /\ httpOut.correct = 1
    /\ httpOut.accuracy = "100.00%"
    /\ \E k \in DOMAIN predictionHistory : predictionHistory[k].actual = JStr("")

\* ------------------------------------------------------------------ C7
\* The change of v against the baseline is at least the threshold, in
\* percent: no baseline is a change of 0, a baseline of 0 is an infinite
\* change unless v is 0 too.
ChangeAtLeastThreshold(v, baseline) ==
    /\ baseline # Null
    /\ IF baseline[1] = 0 THEN v # 0
       ELSE 100 * Abs(v - baseline[1]) >= NotifyThreshold * Abs(baseline[1])

DataPushedTo(s) == wsOut.sub = s /\ HasType(wsOut.pushed, "marketData")

\* C9: a tick whose provider fetch fails pushes nothing, leaves the baseline
\* and every timer as they were; and a subscriber whose tick failed gets a
\* data message later, unless it disconnects first.
C9_FailedTickIsSkippedAndRetried ==
    /\ [][ CallFailed =>
              /\ wsOut'.pushed = <<>>
              /\ previousPortfolioValue' = previousPortfolioValue
              /\ interval' = interval
              /\ readyState' = readyState ]_vars
    /\ \A s \in Subs :
          (wsOut.op = "reject" /\ wsOut.sub = s)
              ~> (readyState[s] = "closed" \/ DataPushedTo(s))

\* A tick of a connected subscriber has just failed and its timer is on.
C9_Witness ==
    /\ wsOut.op = "reject"
    /\ readyState[wsOut.sub] = "open"
    /\ interval[wsOut.sub]
    /\ cachedData # Null

\* ------------------------------------------------------------------ C10
CloseHandled == wsOut'.op = "close" /\ readyState' # readyState

\* C10: the close event of a subscriber turns its timer off and no other;
\* a closed subscriber stays closed with its timer off and starts no tick;
\* and every other connected subscriber goes on ticking.
C10_CloseCancelsOwnTimerOnly ==
    /\ [][ /\ CloseHandled =>
                  /\ readyState[wsOut'.sub] = "open"
                  /\ readyState'[wsOut'.sub] = "closed"
                  /\ ~interval'[wsOut'.sub]
                  /\ \A o \in Subs \ {wsOut'.sub} :
                        interval'[o] = interval[o] /\ readyState'[o] = readyState[o]
           /\ \A s \in Subs :
                  readyState[s] = "closed" => (readyState'[s] = "closed" /\ ~interval'[s])
           /\ CallStarted => readyState[wsOut'.sub] = "open" ]_vars
    /\ \A s \in Subs : [](readyState[s] = "closed" => ~interval[s])
    /\ \A o \in Subs :
          []<>(readyState[o] # "open" \/ (wsOut.op \in {"hit", "miss"} /\ wsOut.sub = o))

\* The first subscriber has disconnected and the second, still connected,
\* has just ticked.
C10_Witness ==
    /\ readyState[1] = "closed"
    /\ ~interval[1]
    /\ readyState[2] = "open"
    /\ interval[2]
    /\ wsOut.op \in {"hit", "miss"}
    /\ wsOut.sub = 2

IsFlat(prices) == \A k \in DOMAIN prices : prices[k] = prices[1]

\* C12: in every record the signal is Buy exactly when the short average is
\* above the long one, Sell exactly when it is below, Hold otherwise and when
\* both windows are under-filled (both averages 0); and a record made from a
\* flat series at least as long as the long window has both averages equal
\* to the price and the signal Hold.
C12_SignalFollowsAveragesAndFlatIsHold ==
    \A k \in DOMAIN predictionHistory :
        \E r \in {predictionHistory[k]} :
            /\ r.prediction \in {"Buy", "Sell", "Hold"}
            /\ (r.prediction = "Buy") <=> DblLt(r.longTermMA, r.shortTermMA)
            /\ (r.prediction = "Sell") <=> DblLt(r.shortTermMA, r.longTermMA)
            /\ Len(r.prices) < ShortWindow =>
                   /\ r.shortTermMA = DblZero
                   /\ r.longTermMA = DblZero
                   /\ r.prediction = "Hold"
            /\ (Len(r.prices) >= LongWindow /\ IsFlat(r.prices)) =>
                   /\ r.shortTermMA = r.prices[1]
                   /\ r.longTermMA = r.prices[1]
                   /\ r.prediction = "Hold"

\* ------------------------------------------------------------------ C13
\* The sum of doubles as a real number, S * 2^e with S of any size.
RECURSIVE ExactSum(_)
ExactSum(q) ==
    IF q = <<>> THEN DblZero
    ELSE Only({ IF q[1].m = <<>> THEN rest
                ELSE IF rest.m = <<>> THEN q[1]
                ELSE Only({ [m |-> BigAdd(BigShl(q[1].m, q[1].e - e), BigShl(rest.m, rest.e - e)),
                             e |-> e]
                            : e \in {IF q[1].e < rest.e THEN q[1].e ELSE rest.e} })
                : rest \in {ExactSum(Tail(q))} })

\* The arithmetic mean of the last days elements, as the nearest double.
Mean(data, days) == DblDivInt(ExactSum(LastN(data, days)), days)

\* d is a whole number
IsWhole(d) ==
    \/ d.m = <<>>
    \/ d.e >= 0
    \/ BigShl(BigShr(d.m, 0 - d.e), 0 - d.e) = d.m

\* a and b are at most ulps units in the last place of the larger apart
DblWithin(a0, b0, ulps) ==
    \E a \in {a0}, b \in {b0} :
        \/ a = b
        \/ /\ a.m # <<>>
           /\ b.m # <<>>
           /\ \E lo \in {IF a.e < b.e THEN a.e ELSE b.e}, hi \in {IF a.e < b.e THEN b.e ELSE a.e} :
                  \E x \in {BigShl(a.m, a.e - lo)}, y \in {BigShl(b.m, b.e - lo)},
                     k \in {BigShl(BigOf(ulps), hi - lo)} :
                      /\ ~BigLt(BigAdd(y, k), x)
                      /\ ~BigLt(BigAdd(x, k), y)

\* The series the handler can receive, parsed.
ParsedInputs == { [k \in 1..Len(p) |-> DblOfTenths(p[k])] : p \in PriceInputs }
OneToTen == [k \in 1..10 |-> DblOfInt(k)]

AverageIsMean(prices, ma, days) ==
    IF Len(prices) < days THEN ma = DblZero ELSE ma = Mean(prices, days)

AverageIsRoundedSum(prices, ma, days) ==
    IF Len(prices) < days THEN ma = DblZero
    ELSE /\ DblWithin(ma, Mean(prices, days), days)
         /\ (\A k \in DOMAIN prices : IsWhole(prices[k])) => ma = Mean(prices, days)

ExampleOneToTen(r) ==
    r.prices = OneToTen =>
        /\ r.shortTermMA = DblOfInt(8)
        /\ r.longTermMA = DblDivInt(DblOfInt(11), 2)
        /\ r.prediction = "Buy"

C14_LedgerIsAppendOnly ==
    [][ /\ Len(predictionHistory') \in {Len(predictionHistory), Len(predictionHistory) + 1}
        /\ \A k \in DOMAIN predictionHistory :
              /\ predictionHistory'[k] =
                     [predictionHistory[k] EXCEPT !.actual = predictionHistory'[k].actual]
              /\ predictionHistory'[k] # predictionHistory[k] =>
                     /\ httpOut'.op = "actual"
                     /\ httpOut'.record = Some(predictionHistory'[k])
                     /\ \A j \in DOMAIN predictionHistory :
                            /\ j # k => predictionHistory'[j] = predictionHistory[j]
                            /\ j < k => predictionHistory[j].id # predictionHistory[k].id
        /\ Len(predictionHistory') = Len(predictionHistory) + 1 =>
              /\ httpOut'.op = "predicted"
              /\ SubSeq(predictionHistory', 1, Len(predictionHistory)) = predictionHistory
        /\ httpOut'.op \in {"accuracy", "predict", "predictFailed", "clock"} =>
              predictionHistory' = predictionHistory ]_vars

\* An accuracy request was answered while the ledger held two records, the
\* first older than the window and annotated, the second not annotated.
C14_Witness ==
    /\ httpOut.op = "accuracy"
    /\ Len(predictionHistory) = 2
    /\ predictionHistory[1].timestamp <= now - Week
    /\ predictionHistory[1].actual = JStr("Buy")
    /\ predictionHistory[2].actual = JNull
    /\ predictionHistory[1].id = 1
    /\ predictionHistory[2].id = 2

\* ------------------------------------------------------------------ C15
TicksInFlight(s) == {k \in DOMAIN pending : pending[k].sub = s}

\* C15: a subscriber has at most one tick awaiting the provider.
C15_OneTickInFlightPerSubscriber ==
    \A s \in Subs : Cardinality(TicksInFlight(s)) <= 1

\* ------------------------------------------------------------------ C16
\* A tick of subscriber s that was awaiting the provider got its snapshot in
\* this step.
TickResumed(s) == wsOut'.op = "resolve" /\ wsOut'.sub = s /\ pending' # pending

\* C16: a tick that resumes after its subscriber's close was handled sends
\* the subscriber nothing and leaves the baseline as it was, and a closed
\* subscriber starts no tick.
C16_NoEffectAfterClose ==
    [][ \A s \in Subs :
          readyState[s] = "closed" =>
              /\ TickResumed(s) =>
                     /\ Delivered(s, wsOut'.pushed) = <<>>
                     /\ previousPortfolioValue' = previousPortfolioValue
              /\ ~(CallStarted /\ wsOut'.sub = s) ]_vars

\* ------------------------------------------------------------------ C17
\* C17: at most one provider request of the Quote Cache is outstanding.
C17_OneProviderFetchInFlight == Len(pending) <= 1

\* ------------------------------------------------------------------ C18
\* C18: lastFetched never decreases; cachedData and lastFetched change only
\* together, when a provider request is answered, to the answer and to the
\* instant that request was issued, which is not before the instant the
\* request of the stored snapshot was issued.
C18_FetchedAtNeverDecreases ==
    [][ /\ lastFetched' >= lastFetched
        /\ (cachedData' # cachedData \/ lastFetched' # lastFetched) =>
               /\ wsOut'.op = "resolve"
               /\ cachedData' = wsOut'.data
               /\ lastFetched' = wsOut'.start
               /\ wsOut'.start >= lastFetched ]_vars

\* ------------------------------------------------------------------ C19
\* A tick ran past its pushes in this step.
TickCompleted == CallReturned /\ ~wsOut'.threw
\* The change the tick of this step computes, against the baseline it finds.
ChangeComputed ==
    calculateChangePercentage(PortfolioValue(wsOut'.data[1]), previousPortfolioValue)
\* The snapshot of this step's tick is the one the last completed tick handled.
SameSnapshotAgain == lastProcessed = wsOut'.data
IsZeroPercent(pct) == pct.num = 0 /\ pct.den # 0
IsNaN(pct) == pct.num = 0 /\ pct.den = 0

\* C19 (as amended): a tick that runs past its pushes compares its valuation
\* with the baseline it finds and overwrites the baseline in the same step;
\* when its snapshot is the one the last completed tick handled, the baseline
\* it finds is its own valuation, the change it computes is 0%, or NaN when
\* the valuation is 0, and it pushes no notification.
C19_RepeatedSnapshotDoesNotNotify ==
    [][ TickCompleted =>
          /\ HasType(wsOut'.pushed, "notification") <=> ShouldNotify(ChangeComputed)
          /\ previousPortfolioValue' = Some(PortfolioValue(wsOut'.data[1]))
          /\ SameSnapshotAgain =>
                 /\ previousPortfolioValue = Some(PortfolioValue(wsOut'.data[1]))
                 /\ IF PortfolioValue(wsOut'.data[1]) = 0
                    THEN IsNaN(ChangeComputed)
                    ELSE IsZeroPercent(ChangeComputed)
                 /\ ~HasType(wsOut'.pushed, "notification") ]_vars

\* C19 as claimed: the later of two completed ticks on the same snapshot
\* computes a change of 0% and pushes no notification.
C19_RepeatedSnapshotComputesZero ==
    [][ (TickCompleted /\ SameSnapshotAgain) =>
          /\ IsZeroPercent(ChangeComputed)
          /\ ~HasType(wsOut'.pushed, "notification") ]_vars

\* No subscriber has ever left, so every tick that got a snapshot completed;
\* a tick of the second subscriber found the snapshot of valuation 95 in the
\* cache, where the tick that fetched it had handled it, and pushed the data
\* message alone.
C19_Witness ==
    /\ \A s \in Subs : readyState[s] = "open"
    /\ wsOut.op = "hit"
    /\ wsOut.sub = 2
    /\ PortfolioValue(wsOut.data[1]) = 95
    /\ previousPortfolioValue = Some(95)
    /\ Len(wsOut.pushed) = 1
    /\ wsOut.pushed[1].type = "marketData"

\* ------------------------------------------------------------------ C20
\* An HTTP handler ran in this step.
HttpStep ==
    \/ httpOut' # httpOut
    \/ predictPending' # predictPending
    \/ directPending' # directPending
    \/ predictionHistory' # predictionHistory
\* A connect, a tick or a disconnect ran in this step.
PushStep ==
    \/ wsOut' # wsOut
    \/ pending' # pending
    \/ readyState' # readyState
    \/ interval' # interval

\* C20: a step of an HTTP handler (portfolio, market-data, predict, actual,
\* accuracy; request, answer or failure) leaves cachedData, lastFetched and
\* previousPortfolioValue as they were, and what portfolio and market-data
\* send is made of the provider's answer to that request alone; a connect, a
\* tick or a disconnect leaves the ledger as it was.
C20_HttpAndPushKeepApart ==
    [][ /\ HttpStep =>
              /\ cachedData' = cachedData
              /\ lastFetched' = lastFetched
              /\ previousPortfolioValue' = previousPortfolioValue
        /\ PushStep => predictionHistory' = predictionHistory
        /\ (HttpStep /\ httpOut'.op = "portfolioDone") =>
              \E i \in DOMAIN directPending :
                  /\ directPending' = RemoveAt(directPending, i)
                  /\ httpOut'.answer # Null
                  /\ httpOut'.body =
                         Some(PortfolioBody(directPending[i].symbols, httpOut'.answer[1]))
        /\ (HttpStep /\ httpOut'.op = "marketDataDone") =>
              /\ httpOut'.answer # Null
              /\ httpOut'.body = httpOut'.answer ]_vars

\* The cache holds the snapshot a tick fetched and the baseline its
\* valuation 100, the ledger holds a record, and a portfolio request has
\* just been answered from a provider answer that quotes bitcoin at 57.
C20_Witness ==
    /\ httpOut.op = "portfolioDone"
    /\ httpOut.body[1].portfolioValue = 57
    /\ cachedData # Null
    /\ cachedData[1].bitcoin = <<60>>
    /\ previousPortfolioValue = Some(100)
    /\ Len(predictionHistory) = 1
    /\ wsOut.op \in {"hit", "resolve"}

====
